---- MODULE Spec2Model ----
(***************************************************************************)
(* Model of the irrigation CSV transformer (transformer.py,                *)
(* transformer_class.py): the file selection, the resolve-or-create of     *)
(* the GeoStreams sensor and stream, and the batched datapoint upload of   *)
(* perform_process, run against a model of the remote store.               *)
(***************************************************************************)
EXTENDS Integers, Sequences, FiniteSets, TLC

(***************************************************************************)
(* Bounds of the model.                                                    *)
(***************************************************************************)
\* largest number of records the parsed file yields
MaxLen == 5
\* largest --batchsize value tried (the smallest is -1)
MaxBatch == 2
\* number of runs executed one after the other against the same store
NumRuns == 2
\* longest candidate file list drawn in the file-selection specification
MaxFiles == 2

Runs == 1..NumRuns

(***************************************************************************)
(* Python values.                                                          *)
(***************************************************************************)
\* the Python None object, as an identifier value and as a "no file" value
None == "<None>"
NoFile == << >>
\* a listing entry that has no 'name' key
Absent == "<absent>"

\* str(x) of an identifier (transformer.py:231, :247): None prints as 'None'
str(x) == IF x = None THEN "None" ELSE x

Digits == <<"0", "1", "2", "3", "4", "5", "6", "7", "8", "9">>

\* str(n) of a non-negative integer (transformer.py:369-370), as its digits
RECURSIVE IntStr(_)
IntStr(n) ==
    IF n < 10 THEN <<Digits[n + 1]>>
    ELSE IntStr(n \div 10) \o <<Digits[(n % 10) + 1]>>

(***************************************************************************)
(* File names are sequences of characters.                                 *)
(***************************************************************************)
IRRIGATION_FILENAME_START ==
    <<"f", "l", "o", "w", "m", "e", "t", "e", "r", "t", "o", "t", "a", "l", "s">>
IRRIGATION_FILENAME_END == <<".", "c", "s", "v">>

\* str.startswith
startswith(s, p) == Len(s) >= Len(p) /\ SubSeq(s, 1, Len(p)) = p
\* str.endswith
endswith(s, p) == Len(s) >= Len(p) /\ SubSeq(s, Len(s) - Len(p) + 1, Len(s)) = p

\* os.path.basename: what follows the last '/'
basename(path) ==
    LET slashes == {i \in 1..Len(path) : path[i] = "/"}
        last == IF slashes = {} THEN 0
                ELSE CHOOSE i \in slashes : \A j \in slashes : j <= i
    IN SubSeq(path, last + 1, Len(path))

\* the test of transformer.py:50
IsIrrigationFile(one_file) ==
    /\ startswith(basename(one_file), IRRIGATION_FILENAME_START)
    /\ endswith(one_file, IRRIGATION_FILENAME_END)

\* a mutant of get_file_to_load: returns the last matching file
get_file_to_load_last(file_list) ==
    LET hits == {i \in 1..Len(file_list) : IsIrrigationFile(file_list[i])}
    IN IF hits = {} THEN NoFile
       ELSE file_list[CHOOSE i \in hits : \A j \in hits : j <= i]

\* a mutant of get_file_to_load: returns the first file ending in '.csv'
get_file_to_load_suffix(file_list) ==
    LET hits == {i \in 1..Len(file_list) :
                    endswith(file_list[i], IRRIGATION_FILENAME_END)}
    IN IF hits = {} THEN NoFile
       ELSE file_list[CHOOSE i \in hits : \A j \in hits : i <= j]

\* __internal__.get_file_to_load: the first file of the list that matches
get_file_to_load(file_list) ==
    LET hits == {i \in 1..Len(file_list) : IsIrrigationFile(file_list[i])}
    IN IF hits = {} THEN NoFile
       ELSE file_list[CHOOSE i \in hits : \A j \in hits : i <= j]

\* Transformer.get_transformer_params: arguments starting with '-' are dropped
\* a mutant of get_transformer_params: the options are kept as candidates
get_transformer_params_all(args) == args

RECURSIVE get_transformer_params(_)
get_transformer_params(args) ==
    IF args = << >> THEN << >>
    ELSE IF startswith(Head(args), <<"-">>)
         THEN get_transformer_params(Tail(args))
         ELSE <<Head(args)>> \o get_transformer_params(Tail(args))

\* the candidate names
F_plain == IRRIGATION_FILENAME_START \o IRRIGATION_FILENAME_END
F_dir == <<"d", "/">> \o IRRIGATION_FILENAME_START \o <<"1">> \o IRRIGATION_FILENAME_END
F_txt == IRRIGATION_FILENAME_START \o <<".", "t", "x", "t">>
F_mid == <<"d", "/", "x">> \o IRRIGATION_FILENAME_START \o IRRIGATION_FILENAME_END
F_indir == IRRIGATION_FILENAME_START \o <<"/", "x">> \o IRRIGATION_FILENAME_END
F_opt == <<"-", "v">>

FileNames == {F_plain, F_dir, F_txt, F_mid, F_indir, F_opt}

RECURSIVE SeqsUpTo(_, _)
SeqsUpTo(S, n) ==
    IF n = 0 THEN {<< >>}
    ELSE LET shorter == SeqsUpTo(S, n - 1)
         IN shorter \cup {Append(s, x) : s \in {t \in shorter : Len(t) = n - 1}, x \in S}


(***************************************************************************)
(* Names and inputs of a run.                                              *)
(***************************************************************************)
\* the sensor display name terrautils derives (transformer.py:317)
DisplayName == "Irrigation Display Name"
\* the same name in another case, which must never match
OtherCaseName == "irrigation display name"
\* the display name of the same sensor at another site (--site_override)
OtherSiteName == "Irrigation Display Name (other site)"
\* transformer.py:333
StreamName == "Irrigation Observations"

\* the message of transformer.py:291-292
NoFileMessage == "No irrigation CSV file was found in list of files to process (file name must match 'flowmetertotals*.csv')"

\* the values of --batchsize tried: argparse's type=int accepts negative ones
BatchSizes == {-1} \cup (0..MaxBatch)

\* the argument lists of the runs
RunFileLists ==
    { << >>,
      <<F_txt, F_mid>>,
      <<F_opt, F_txt, F_dir, F_plain>> }

\* identifiers the store assigns, in order
IdNames == <<"id1", "id2", "id3", "id4", "id5", "id6", "id7", "id8", "id9", "id10", "id11", "id12">>
NewId(n) == IdNames[n]

\* the stores a first run may meet: [sensors, streams, next_id]
InitialStores ==
    { [sensors |-> << >>, streams |-> << >>, next_id |-> 1],
      [sensors |-> <<[id |-> "id1", name |-> DisplayName]>>,
       streams |-> <<[id |-> "id2", name |-> StreamName, sensor_id |-> "id1"]>>,
       next_id |-> 3],
      [sensors |-> <<[id |-> "id1", name |-> OtherCaseName],
                     [id |-> "id2", name |-> Absent]>>,
       streams |-> << >>,
       next_id |-> 3],
      \* the stream a run for another site created under that site's sensor
      [sensors |-> <<[id |-> "id1", name |-> OtherSiteName]>>,
       streams |-> <<[id |-> "id2", name |-> StreamName, sensor_id |-> "id1"]>>,
       next_id |-> 3] }

VARIABLES
    args_file_list,   \* args.file_list, the command line's file arguments
    batchsize,        \* args.batchsize
    num_records,      \* how many records the irrigation file holds
    sensors,          \* the store's sensors, in listing order
    streams,          \* the store's streams, in listing order
    datapoints,       \* the store's accepted datapoint batches, in order
    next_id,          \* index of the next identifier the store assigns
    pc,               \* where each run stands
    check_result,     \* what check_continue returned to each run
    all_files,        \* perform_process: all_files
    file_to_load,     \* perform_process: file_to_load
    sensor_id,        \* perform_process: sensor_id
    stream_id,        \* perform_process: stream_id
    records,          \* perform_process: the records parse_file yields
    pos,              \* how many records the for loop has taken
    data_point_list,  \* perform_process: data_point_list
    total_dp,         \* perform_process: total_dp
    requests,         \* every remote request each run issued, with its outcome
    parsed,           \* the files each run handed to parse_file
    result            \* what perform_process returned to each run

inputs == <<args_file_list, batchsize, num_records>>
store == <<sensors, streams, datapoints, next_id>>
locals == <<all_files, file_to_load, sensor_id, stream_id, records, pos,
            data_point_list, total_dp, parsed, result>>
vars == <<inputs, store, pc, check_result, locals, requests>>

\* check_md['list_files'](): the list get_transformer_params captured
list_files == get_transformer_params(args_file_list)

Terminal(r) == pc[r] \in {"DONE", "FAILED"}

\* no datapoints yet, and every run before its first step
InitLocals ==
    /\ datapoints = << >>
    /\ pc = [r \in Runs |-> "idle"]
    /\ check_result = [r \in Runs |-> << >>]
    /\ all_files = [r \in Runs |-> << >>]
    /\ file_to_load = [r \in Runs |-> NoFile]
    /\ sensor_id = [r \in Runs |-> None]
    /\ stream_id = [r \in Runs |-> None]
    /\ records = [r \in Runs |-> << >>]
    /\ pos = [r \in Runs |-> 0]
    /\ data_point_list = [r \in Runs |-> << >>]
    /\ total_dp = [r \in Runs |-> 0]
    /\ requests = [r \in Runs |-> << >>]
    /\ parsed = [r \in Runs |-> << >>]
    /\ result = [r \in Runs |-> << >>]

InitRuns ==
    /\ sensors \in {s.sensors : s \in InitialStores}
    /\ \E s \in InitialStores :
          /\ sensors = s.sensors
          /\ streams = s.streams
          /\ next_id = s.next_id
    /\ InitLocals

Init ==
    /\ args_file_list \in RunFileLists
    /\ batchsize \in BatchSizes
    /\ num_records \in 0..MaxLen
    /\ InitRuns

(***************************************************************************)
(* The remote calls.                                                       *)
(***************************************************************************)
\* a request as the log keeps it: has_id tells whether the response to a
\* creation carried an 'id'
Request(method, endpoint, name, id, points, ok, has_id) ==
    [method |-> method, endpoint |-> endpoint, name |-> name, id |-> id,
     points |-> points, ok |-> ok, has_id |-> has_id]

\* a mutant of lookup_raises: the status of the listing response is not checked
lookup_raises_never(status_ok) == FALSE

\* resp.raise_for_status() of _common_geostreams_name_get
lookup_raises(status_ok) == ~status_ok

\* a mutant of create_raises: the status of the POST response is not checked
create_raises_never(status_ok) == FALSE

\* result.raise_for_status() of common_geostreams_create
create_raises(status_ok) == ~status_ok

\* a mutant of _common_geostreams_name_get: the first entry that has a name
name_get_any_named(listing, name) ==
    LET hits == {i \in 1..Len(listing) : listing[i].name # Absent}
    IN IF hits = {} THEN << >>
       ELSE <<listing[CHOOSE i \in hits : \A j \in hits : i <= j]>>

\* a mutant of _common_geostreams_name_get: nothing is ever found
name_get_nothing(listing, name) == << >>

\* _common_geostreams_name_get, the scan of the listing: the first entry that
\* has a 'name' equal to the requested one, as <<entry>>, or << >> for None
_common_geostreams_name_get(listing, name) ==
    LET hits == {i \in 1..Len(listing) :
                    listing[i].name # Absent /\ listing[i].name = name}
    IN IF hits = {} THEN << >>
       ELSE <<listing[CHOOSE i \in hits : \A j \in hits : i <= j]>>

\* a mutant of result_id: an identifier is returned whatever the response holds
result_id_always(has_id, id) == id

\* common_geostreams_create, the identifier it returns from the response
result_id(has_id, id) == IF has_id THEN id ELSE None

(***************************************************************************)
(* The upload loop's decisions.                                            *)
(***************************************************************************)
\* a mutant of FlushNeeded: the buffer is flushed when it reaches batchsize
FlushNeededAtSize(buffer, size) == Len(buffer) >= size

\* transformer.py:353: the buffer is flushed once it is longer than batchsize
FlushNeeded(buffer, size) == Len(buffer) > size

\* a mutant of AddedTotal: the batch size is counted, not the buffer's length
AddedTotalBatch(total, buffer) == total + batchsize

\* transformer.py:356 and :362: total_dp += len(data_point_list)
AddedTotal(total, buffer) == total + Len(buffer)

\* a mutant of AfterFlush: the buffer is not cleared
AfterFlushKept(buffer) == buffer

\* transformer.py:357: data_point_list = [] after a flush
AfterFlush(buffer) == << >>

\* parse_file of the irrigation file: its records, in file order
parse_file(one_file) == [i \in 1..num_records |-> i]

\* the dictionary perform_process returns (transformer.py:364-372)
Summary(files_count, total) ==
    [code |-> 0,
     num_files_received |-> IntStr(files_count),
     num_records_added |-> IntStr(total)]

(***************************************************************************)
(* The operations of a run.  Runs execute one after the other.             *)
(***************************************************************************)
MayStart(r) == \A q \in Runs : q < r => Terminal(q)

\* check_continue (transformer.py:278-292)
check_continue(r) ==
    /\ pc[r] = "idle"
    /\ pc' = [pc EXCEPT ![r] = "checked"]
    /\ check_result' = [check_result EXCEPT ![r] =
          IF get_file_to_load(list_files) # NoFile
          THEN <<0>>
          ELSE <<-1, NoFileMessage>>]
    /\ UNCHANGED <<inputs, store, locals, requests>>

\* a run starts, with check_continue, once the runs before it have ended
CheckContinue(r) == MayStart(r) /\ check_continue(r)

\* perform_process up to the first remote call (transformer.py:303-317)
PerformProcessStart(r) ==
    /\ pc[r] = "checked"
    /\ pc' = [pc EXCEPT ![r] = "get_sensor"]
    /\ all_files' = [all_files EXCEPT ![r] = list_files]
    /\ file_to_load' = [file_to_load EXCEPT ![r] = get_file_to_load(list_files)]
    /\ UNCHANGED <<inputs, store, check_result, sensor_id, stream_id, records, pos,
                   data_point_list, total_dp, parsed, result, requests>>

\* get_sensor_by_name and the test on its result (transformer.py:320-321, :330)
GetSensor(r) ==
    /\ pc[r] = "get_sensor"
    /\ \E ok \in BOOLEAN :
          LET listing == IF ok THEN sensors ELSE << >>
              found == _common_geostreams_name_get(listing, DisplayName)
          IN /\ requests' = [requests EXCEPT ![r] = Append(@,
                    Request("GET", "sensors", DisplayName, "", << >>, ok, FALSE))]
             /\ IF lookup_raises(ok)
                THEN /\ pc' = [pc EXCEPT ![r] = "FAILED"]
                     /\ UNCHANGED sensor_id
                ELSE IF found = << >>
                THEN /\ pc' = [pc EXCEPT ![r] = "create_sensor"]
                     /\ UNCHANGED sensor_id
                ELSE /\ pc' = [pc EXCEPT ![r] = "get_stream"]
                     /\ sensor_id' = [sensor_id EXCEPT ![r] = found[1].id]
    /\ UNCHANGED <<inputs, store, check_result, all_files, file_to_load, stream_id,
                   records, pos, data_point_list, total_dp, parsed, result>>

\* create_sensor (transformer.py:322-328, :189-211, :135-162)
CreateSensor(r) ==
    /\ pc[r] = "create_sensor"
    /\ \E ok \in BOOLEAN, has_id \in BOOLEAN :
          /\ (~ok => ~has_id)
          /\ requests' = [requests EXCEPT ![r] = Append(@,
                Request("POST", "sensors", DisplayName, "", << >>, ok, has_id))]
          /\ IF ok
             THEN /\ sensors' = Append(sensors,
                        [id |-> NewId(next_id), name |-> DisplayName])
                  /\ next_id' = next_id + 1
             ELSE UNCHANGED <<sensors, next_id>>
          /\ IF create_raises(ok)
             THEN /\ pc' = [pc EXCEPT ![r] = "FAILED"]
                  /\ UNCHANGED sensor_id
             ELSE /\ pc' = [pc EXCEPT ![r] = "get_stream"]
                  /\ sensor_id' = [sensor_id EXCEPT ![r] =
                        result_id(has_id, NewId(next_id))]
    /\ UNCHANGED <<inputs, streams, datapoints, check_result, all_files, file_to_load,
                   stream_id, records, pos, data_point_list, total_dp, parsed, result>>

\* get_stream_by_name and the test on its result (transformer.py:333-335, :338)
GetStream(r) ==
    /\ pc[r] = "get_stream"
    /\ \E ok \in BOOLEAN :
          LET listing == IF ok THEN streams ELSE << >>
              found == _common_geostreams_name_get(listing, StreamName)
          IN /\ requests' = [requests EXCEPT ![r] = Append(@,
                    Request("GET", "streams", StreamName, "", << >>, ok, FALSE))]
             /\ IF lookup_raises(ok)
                THEN /\ pc' = [pc EXCEPT ![r] = "FAILED"]
                     /\ UNCHANGED stream_id
                ELSE IF found = << >>
                THEN /\ pc' = [pc EXCEPT ![r] = "create_stream"]
                     /\ UNCHANGED stream_id
                ELSE /\ pc' = [pc EXCEPT ![r] = "parse"]
                     /\ stream_id' = [stream_id EXCEPT ![r] = found[1].id]
    /\ UNCHANGED <<inputs, store, check_result, all_files, file_to_load, sensor_id,
                   records, pos, data_point_list, total_dp, parsed, result>>

\* create_stream (transformer.py:336, :214-234, :135-162)
CreateStream(r) ==
    /\ pc[r] = "create_stream"
    /\ \E ok \in BOOLEAN, has_id \in BOOLEAN :
          /\ (~ok => ~has_id)
          /\ requests' = [requests EXCEPT ![r] = Append(@,
                Request("POST", "streams", StreamName, str(sensor_id[r]), << >>, ok,
                        has_id))]
          /\ IF ok
             THEN /\ streams' = Append(streams,
                        [id |-> NewId(next_id), name |-> StreamName,
                         sensor_id |-> str(sensor_id[r])])
                  /\ next_id' = next_id + 1
             ELSE UNCHANGED <<streams, next_id>>
          /\ IF create_raises(ok)
             THEN /\ pc' = [pc EXCEPT ![r] = "FAILED"]
                  /\ UNCHANGED stream_id
             ELSE /\ pc' = [pc EXCEPT ![r] = "parse"]
                  /\ stream_id' = [stream_id EXCEPT ![r] =
                        result_id(has_id, NewId(next_id))]
    /\ UNCHANGED <<inputs, sensors, datapoints, check_result, all_files, file_to_load,
                   sensor_id, records, pos, data_point_list, total_dp, parsed, result>>

\* parse_file and the loop's initialisation (transformer.py:341-344); no file
\* to load makes parse_file raise
ParseFile(r) ==
    /\ pc[r] = "parse"
    /\ IF file_to_load[r] = NoFile
       THEN /\ pc' = [pc EXCEPT ![r] = "FAILED"]
            /\ UNCHANGED <<records, parsed>>
       ELSE /\ pc' = [pc EXCEPT ![r] = "loop"]
            /\ records' = [records EXCEPT ![r] = parse_file(file_to_load[r])]
            /\ parsed' = [parsed EXCEPT ![r] = Append(@, file_to_load[r])]
    /\ pos' = [pos EXCEPT ![r] = 0]
    /\ total_dp' = [total_dp EXCEPT ![r] = 0]
    /\ data_point_list' = [data_point_list EXCEPT ![r] = << >>]
    /\ UNCHANGED <<inputs, store, check_result, all_files, file_to_load, sensor_id,
                   stream_id, result, requests>>

\* a mutant of create_data_points: the sensor's identifier is sent
create_data_points_sensor(r, buffer, ok) ==
    /\ requests' = [requests EXCEPT ![r] = Append(@,
          Request("POST", "datapoints/bulk", "", str(sensor_id[r]), buffer, ok,
                  FALSE))]
    /\ datapoints' = IF ok
                     THEN Append(datapoints,
                             [stream_id |-> str(sensor_id[r]), points |-> buffer])
                     ELSE datapoints

\* create_data_points (transformer.py:237-250, :135-162): the request and
\* what the store keeps of it
create_data_points(r, buffer, ok) ==
    /\ requests' = [requests EXCEPT ![r] = Append(@,
          Request("POST", "datapoints/bulk", "", str(stream_id[r]), buffer, ok,
                  FALSE))]
    /\ datapoints' = IF ok
                     THEN Append(datapoints,
                             [stream_id |-> str(stream_id[r]), points |-> buffer])
                     ELSE datapoints

\* one iteration of the for loop (transformer.py:345-357)
LoopRecord(r) ==
    /\ pc[r] = "loop"
    /\ pos[r] < Len(records[r])
    /\ pos' = [pos EXCEPT ![r] = @ + 1]
    /\ LET buffer == Append(data_point_list[r], records[r][pos[r] + 1])
       IN IF FlushNeeded(buffer, batchsize)
          THEN \E ok \in BOOLEAN :
                  /\ create_data_points(r, buffer, ok)
                  /\ IF create_raises(ok)
                     THEN /\ pc' = [pc EXCEPT ![r] = "FAILED"]
                          /\ data_point_list' = [data_point_list EXCEPT ![r] = buffer]
                          /\ UNCHANGED total_dp
                     ELSE /\ total_dp' = [total_dp EXCEPT ![r] = AddedTotal(@, buffer)]
                          /\ data_point_list' =
                                [data_point_list EXCEPT ![r] = AfterFlush(buffer)]
                          /\ UNCHANGED pc
          ELSE /\ data_point_list' = [data_point_list EXCEPT ![r] = buffer]
               /\ UNCHANGED <<pc, total_dp, requests, datapoints>>
    /\ UNCHANGED <<inputs, sensors, streams, next_id, check_result, all_files,
                   file_to_load, sensor_id, stream_id, records, parsed, result>>

\* after the loop: the final flush and the summary (transformer.py:358-372)
FinishUpload(r) ==
    /\ pc[r] = "loop"
    /\ pos[r] = Len(records[r])
    /\ IF Len(data_point_list[r]) > 0
       THEN \E ok \in BOOLEAN :
               /\ create_data_points(r, data_point_list[r], ok)
               /\ IF create_raises(ok)
                  THEN /\ pc' = [pc EXCEPT ![r] = "FAILED"]
                       /\ UNCHANGED <<total_dp, result>>
                  ELSE /\ total_dp' = [total_dp EXCEPT ![r] =
                             AddedTotal(@, data_point_list[r])]
                       /\ pc' = [pc EXCEPT ![r] = "DONE"]
                       /\ result' = [result EXCEPT ![r] =
                             <<Summary(Len(all_files[r]),
                                       AddedTotal(total_dp[r], data_point_list[r]))>>]
       ELSE /\ pc' = [pc EXCEPT ![r] = "DONE"]
            /\ result' = [result EXCEPT ![r] =
                  <<Summary(Len(all_files[r]), total_dp[r])>>]
            /\ UNCHANGED <<total_dp, requests, datapoints>>
    /\ UNCHANGED <<inputs, sensors, streams, next_id, check_result, all_files,
                   file_to_load, sensor_id, stream_id, records, pos, data_point_list,
                   parsed>>

Next ==
    \E r \in Runs :
        \/ CheckContinue(r)
        \/ PerformProcessStart(r)
        \/ GetSensor(r)
        \/ CreateSensor(r)
        \/ GetStream(r)
        \/ CreateStream(r)
        \/ ParseFile(r)
        \/ LoopRecord(r)
        \/ FinishUpload(r)

Spec == Init /\ [][Next]_vars

(***************************************************************************)
(* What the request log of a run shows.                                    *)
(***************************************************************************)
IsDatapoints(q) == q.endpoint = "datapoints/bulk"
IsAccepted(q) == q.endpoint = "datapoints/bulk" /\ q.ok

\* the datapoint requests of run r, in submission order
Flushes(r) == SelectSeq(requests[r], IsDatapoints)
\* those the store accepted
AcceptedFlushes(r) == SelectSeq(requests[r], IsAccepted)

FlushSizes(r) == [i \in 1..Len(Flushes(r)) |-> Len(Flushes(r)[i].points)]

RECURSIVE ConcatPoints(_)
ConcatPoints(batches) ==
    IF batches = << >> THEN << >>
    ELSE Head(batches).points \o ConcatPoints(Tail(batches))

IsPrefix(s, t) == Len(s) <= Len(t) /\ SubSeq(t, 1, Len(s)) = s

\* the flush sizes a source of L records must give under batch size N >= 0
ExpectedSizes(L, N) ==
    LET full == L \div (N + 1)
        rest == L % (N + 1)
    IN [i \in 1..(full + IF rest # 0 THEN 1 ELSE 0) |->
           IF i <= full THEN N + 1 ELSE rest]

\* the files of FileNames that match the naming pattern, by inspection
MatchingNames == {F_plain, F_dir}
MatchingPlaces(file_list) ==
    {i \in 1..Len(file_list) : file_list[i] \in MatchingNames}

(***************************************************************************)
(* C1.  For a batch size N >= 0 and a source of L records, a run whose     *)
(* remote calls all succeed issues floor(L/(N+1)) flushes of N+1 records   *)
(* followed by one flush of L mod (N+1) records exactly when that is not   *)
(* zero; with L = N >= 1 the single flush of N records is issued only      *)
(* after the source is exhausted.                                          *)
(***************************************************************************)
C1_General ==
    \A r \in Runs :
        (pc[r] = "DONE" /\ batchsize >= 0) =>
            FlushSizes(r) = ExpectedSizes(num_records, batchsize)

C1_FlushSizes ==
    /\ C1_General
    /\ \A r \in Runs :
          (batchsize >= 1 /\ num_records = batchsize) =>
              /\ pc[r] = "DONE" => FlushSizes(r) = <<batchsize>>
              /\ Flushes(r) # << >> =>
                    pos[r] = Len(records[r]) /\ pc[r] \in {"DONE", "FAILED"}

\* C1 as stated: L = N gives exactly one flush of N records for every N >= 0
C1_AsStated ==
    /\ C1_General
    /\ \A r \in Runs :
          (batchsize >= 0 /\ num_records = batchsize /\ pc[r] = "DONE") =>
              FlushSizes(r) = <<batchsize>>

\* a run over 2N+2+r records has flushed N+1, N+1 and the rest
C1_Witness ==
    \E r \in Runs :
        /\ pc[r] = "DONE"
        /\ batchsize = 1
        /\ num_records = 5
        /\ FlushSizes(r) = <<2, 2, 1>>

(***************************************************************************)
(* C2.  No datapoints/bulk request carries more than batchsize data points *)
(* (the help text of --batchsize); stated for the batch sizes of at least  *)
(* one, where a request within the limit is possible at all.               *)
(***************************************************************************)
C2_AtMostBatchsize ==
    \A r \in Runs : \A i \in 1..Len(Flushes(r)) :
        batchsize >= 1 => Len(Flushes(r)[i].points) <= batchsize

(***************************************************************************)
(* C3.  total_dp is the number of records in the flushes the store has     *)
(* accepted so far, and a run that is DONE reports as num_records_added    *)
(* the number of records the source yielded.                               *)
(***************************************************************************)
C3_TotalIsAccepted ==
    \A r \in Runs :
        /\ total_dp[r] = Len(ConcatPoints(AcceptedFlushes(r)))
        /\ pc[r] = "DONE" =>
              /\ result[r] # << >>
              /\ result[r][1].num_records_added = IntStr(Len(records[r]))
              /\ Len(records[r]) = num_records

C3_Witness ==
    \E r \in Runs :
        /\ pc[r] = "DONE"
        /\ Len(AcceptedFlushes(r)) >= 2
        /\ total_dp[r] = num_records
        /\ batchsize = 2

(***************************************************************************)
(* Resolution, as the request log shows it.                                *)
(***************************************************************************)
Posted(r, endpoint) ==
    \E i \in 1..Len(requests[r]) :
        requests[r][i].method = "POST" /\ requests[r][i].endpoint = endpoint

CreatedOk(r, endpoint) ==
    \E i \in 1..Len(requests[r]) :
        /\ requests[r][i].method = "POST"
        /\ requests[r][i].endpoint = endpoint
        /\ requests[r][i].ok

\* every request of run r to the endpoint succeeded, and there is one
AllOk(r, endpoint) ==
    /\ \E i \in 1..Len(requests[r]) : requests[r][i].endpoint = endpoint
    /\ \A i \in 1..Len(requests[r]) :
          requests[r][i].endpoint = endpoint => requests[r][i].ok

ResolvedSensor(r) ==
    /\ pc[r] \notin {"idle", "checked", "get_sensor", "create_sensor"}
    /\ AllOk(r, "sensors")

ResolvedStream(r) ==
    /\ pc[r] \notin {"idle", "checked", "get_sensor", "create_sensor",
                     "get_stream", "create_stream"}
    /\ AllOk(r, "streams")

Named(collection, name) == {i \in 1..Len(collection) : collection[i].name = name}

NoDuplicates ==
    /\ Cardinality(Named(sensors, DisplayName)) <= 1
    /\ Cardinality(Named(streams, StreamName)) <= 1

(***************************************************************************)
(* C4.  Once a run has created the sensor (or stream) and the store keeps  *)
(* it under the requested name, a later run finds it by lookup, obtains    *)
(* the identifier the store keeps it under, which is the identifier the    *)
(* first resolution returned whenever the creation response carried one,   *)
(* and issues no creation request for that kind; the store never holds two *)
(* resources of one kind under the requested name.                         *)
(***************************************************************************)
C4_ResolverIdempotent ==
    /\ NoDuplicates
    /\ \A r1 \in Runs, r2 \in Runs :
          r1 < r2 =>
             /\ (CreatedOk(r1, "sensors") /\ ResolvedSensor(r2)) =>
                   /\ ~Posted(r2, "sensors")
                   /\ \E i \in Named(sensors, DisplayName) :
                         sensor_id[r2] = sensors[i].id
                   /\ sensor_id[r1] # None => sensor_id[r2] = sensor_id[r1]
             /\ (CreatedOk(r1, "streams") /\ ResolvedStream(r2)) =>
                   /\ ~Posted(r2, "streams")
                   /\ \E i \in Named(streams, StreamName) :
                         stream_id[r2] = streams[i].id
                   /\ stream_id[r1] # None => stream_id[r2] = stream_id[r1]

\* C4 as stated: the second resolution returns what the first returned
\* (read on the runs that have a file to load)
C4_AsStated ==
    /\ NoDuplicates
    /\ \A r1 \in Runs, r2 \in Runs :
          (r1 < r2 /\ MatchingPlaces(list_files) # {}) =>
             /\ (CreatedOk(r1, "sensors") /\ ResolvedSensor(r2)) =>
                   /\ ~Posted(r2, "sensors")
                   /\ sensor_id[r2] = sensor_id[r1]
             /\ (CreatedOk(r1, "streams") /\ ResolvedStream(r2)) =>
                   /\ ~Posted(r2, "streams")
                   /\ stream_id[r2] = stream_id[r1]

C4_Witness ==
    \E r1 \in Runs, r2 \in Runs :
        /\ r1 < r2
        /\ CreatedOk(r1, "sensors") /\ CreatedOk(r1, "streams")
        /\ ResolvedSensor(r2) /\ ResolvedStream(r2)
        /\ sensor_id[r1] # None /\ sensor_id[r2] = sensor_id[r1]
        /\ stream_id[r1] # None /\ stream_id[r2] = stream_id[r1]

(***************************************************************************)
(* C5.  A sensor or stream lookup that returns a non-success status is the *)
(* last request of its run: no creation, no further lookup, no retry and   *)
(* no upload follows it, the run is FAILED and returns no summary.         *)
(***************************************************************************)
C5_LookupFailureFatal ==
    \A r \in Runs : \A i \in 1..Len(requests[r]) :
        (requests[r][i].method = "GET" /\ ~requests[r][i].ok) =>
            /\ i = Len(requests[r])
            /\ pc[r] = "FAILED"
            /\ result[r] = << >>

C5_Witness ==
    \E r \in Runs :
        /\ Len(requests[r]) >= 2
        /\ requests[r][Len(requests[r])].method = "GET"
        /\ requests[r][Len(requests[r])].endpoint = "streams"
        /\ ~requests[r][Len(requests[r])].ok
        /\ pc[r] = "FAILED"
        /\ file_to_load[r] # NoFile

(***************************************************************************)
(* C6.  check_continue returns a negative code with a non-empty message,   *)
(* as a value, for every list without a matching file, and the code 0 for  *)
(* every list with one.                                                    *)
(***************************************************************************)
C6_CheckContinue ==
    \A r \in Runs :
        pc[r] # "idle" =>
            IF MatchingPlaces(list_files) = {}
            THEN /\ Len(check_result[r]) = 2
                 /\ check_result[r][1] < 0
                 /\ check_result[r][2] # ""
            ELSE check_result[r] = <<0>>

C6_Witness ==
    \E r \in Runs :
        /\ pc[r] = "checked"
        /\ list_files = <<F_mid, F_indir>>
        /\ check_result[r][1] = -1

(***************************************************************************)
(* C7.  When the list holds a matching file, the matching file of the      *)
(* smallest index is the one loaded, and it is the only file parsed.       *)
(***************************************************************************)
FirstMatch(file_list) ==
    file_list[CHOOSE i \in MatchingPlaces(file_list) :
                 \A j \in MatchingPlaces(file_list) : i <= j]

C7_FirstMatchLoaded ==
    \A r \in Runs :
        (pc[r] \notin {"idle", "checked"} /\ MatchingPlaces(list_files) # {}) =>
            /\ file_to_load[r] = FirstMatch(list_files)
            /\ Len(parsed[r]) <= 1
            /\ pc[r] \in {"loop", "DONE"} => parsed[r] = <<FirstMatch(list_files)>>

C7_Witness ==
    \E r \in Runs :
        /\ pc[r] = "DONE"
        /\ list_files = <<F_dir, F_plain>>
        /\ parsed[r] = <<F_dir>>

(***************************************************************************)
(* C8.  The batches a run has submitted, concatenated in submission order, *)
(* are a prefix of the source sequence; a batch is submitted only after    *)
(* every earlier one has returned successfully; in DONE the concatenation  *)
(* is the whole source sequence.                                           *)
(***************************************************************************)
C8_OrderExactlyOnce ==
    \A r \in Runs :
        /\ IsPrefix(ConcatPoints(Flushes(r)), records[r])
        /\ \A i \in 1..Len(Flushes(r)) : i < Len(Flushes(r)) => Flushes(r)[i].ok
        /\ pc[r] = "DONE" =>
              /\ ConcatPoints(Flushes(r)) = records[r]
              /\ records[r] = [i \in 1..num_records |-> i]

C8_Witness ==
    \E r \in Runs :
        /\ pc[r] = "DONE"
        /\ Len(Flushes(r)) = 3
        /\ ConcatPoints(Flushes(r)) = <<1, 2, 3, 4, 5>>

(***************************************************************************)
(* C9.  A datapoints request that returns a non-success status is the last *)
(* request of its run, the run is FAILED and returns no summary, and the   *)
(* store holds exactly the batches it accepted, those accepted before a    *)
(* failure included.                                                       *)
(***************************************************************************)
Stored(r) ==
    [i \in 1..Len(AcceptedFlushes(r)) |->
        [stream_id |-> AcceptedFlushes(r)[i].id,
         points |-> AcceptedFlushes(r)[i].points]]

RECURSIVE StoredUpTo(_)
StoredUpTo(r) == IF r = 0 THEN << >> ELSE StoredUpTo(r - 1) \o Stored(r)

C9_FailedFlushAborts ==
    /\ datapoints = StoredUpTo(NumRuns)
    /\ \A r \in Runs : \A i \in 1..Len(requests[r]) :
          (IsDatapoints(requests[r][i]) /\ ~requests[r][i].ok) =>
              /\ i = Len(requests[r])
              /\ pc[r] = "FAILED"
              /\ result[r] = << >>

C9_Witness ==
    \E r \in Runs :
        /\ pc[r] = "FAILED"
        /\ Len(AcceptedFlushes(r)) >= 1
        /\ Len(Flushes(r)) = Len(AcceptedFlushes(r)) + 1
        /\ pos[r] < Len(records[r])
        /\ Len(datapoints) >= 1

(***************************************************************************)
(* C10.  A run whose candidate list holds no matching file issues no       *)
(* remote request at all, perform_process included.                        *)
(***************************************************************************)
C10_NoRequestWithoutFile ==
    \A r \in Runs :
        MatchingPlaces(list_files) = {} => requests[r] = << >>

(***************************************************************************)
(* The file-selection specification: every argument list up to MaxFiles    *)
(* names, one batch size and one file length.                              *)
(***************************************************************************)
InitFiles ==
    /\ args_file_list \in SeqsUpTo(FileNames, MaxFiles)
    /\ batchsize = 1
    /\ num_records = 2
    /\ InitRuns

SpecFiles == InitFiles /\ [][Next]_vars

(***************************************************************************)
(* C11.  The stream a run uploads to is parented to the sensor the run     *)
(* resolved, whether the run created the stream or found it by name (read  *)
(* on the runs that obtained both identifiers).                            *)
(***************************************************************************)
Uploading(r) == pc[r] \in {"loop", "DONE"} \/ Flushes(r) # << >>

C11_StreamParented ==
    \A r \in Runs :
        (Uploading(r) /\ sensor_id[r] # None /\ stream_id[r] # None) =>
            \A i \in 1..Len(streams) :
                streams[i].id = stream_id[r] => streams[i].sensor_id = sensor_id[r]

(***************************************************************************)
(* C12.  The requests of a run come in the order sensor lookup, optional   *)
(* sensor creation, stream lookup, optional stream creation, datapoint     *)
(* uploads; each is issued only after the one before it succeeded; a run   *)
(* never steps back, and issues nothing once it is DONE or FAILED.         *)
(***************************************************************************)
Phase(q) ==
    IF q.endpoint = "sensors" THEN 1 ELSE IF q.endpoint = "streams" THEN 2 ELSE 3

Rank(at) ==
    CASE at = "idle" -> 0
      [] at = "checked" -> 1
      [] at = "get_sensor" -> 2
      [] at = "create_sensor" -> 3
      [] at = "get_stream" -> 4
      [] at = "create_stream" -> 5
      [] at = "parse" -> 6
      [] at = "loop" -> 7
      [] OTHER -> 8

InOrder(r) ==
    LET log == requests[r]
    IN /\ log # << >> => log[1].method = "GET" /\ log[1].endpoint = "sensors"
       /\ \A i \in 1..Len(log) : i < Len(log) => log[i].ok
       /\ \A i \in 1..Len(log), j \in 1..Len(log) :
             i < j =>
                /\ Phase(log[i]) <= Phase(log[j])
                /\ (Phase(log[i]) = Phase(log[j]) /\ Phase(log[i]) < 3) =>
                      log[i].method = "GET" /\ log[j].method = "POST"
       /\ \A j \in 1..Len(log) :
             Phase(log[j]) > 1 =>
                \E i \in 1..Len(log) : i < j /\ Phase(log[i]) = Phase(log[j]) - 1
       /\ (log # << >> /\ Phase(log[Len(log)]) = 1) => Rank(pc[r]) \in {3, 4, 8}
       /\ (log # << >> /\ Phase(log[Len(log)]) = 2) => Rank(pc[r]) >= 5
       /\ (log # << >> /\ Phase(log[Len(log)]) = 3) => Rank(pc[r]) >= 7
       /\ log = << >> => Rank(pc[r]) <= 2

NoStepBack ==
    \A r \in Runs :
        /\ Rank(pc'[r]) >= Rank(pc[r])
        /\ Terminal(r) => pc'[r] = pc[r] /\ requests'[r] = requests[r]

C12_FixedOrder == [](\A r \in Runs : InOrder(r)) /\ [][NoStepBack]_vars

C12_Witness ==
    \E r \in Runs :
        /\ pc[r] = "DONE"
        /\ Len(requests[r]) = 6
        /\ requests[r][2].method = "POST" /\ requests[r][2].endpoint = "sensors"
        /\ requests[r][4].method = "POST" /\ requests[r][4].endpoint = "streams"
        /\ Len(Flushes(r)) = 2

(***************************************************************************)
(* C13.  A creation that succeeds with a response carrying no 'id' gives   *)
(* the run a null identifier and the run goes on: after such a sensor      *)
(* creation the stream lookup follows and a stream creation carries the    *)
(* null sensor id; after such a stream creation the datapoint batches are  *)
(* submitted with the null stream id.                                      *)
(***************************************************************************)
CreatedWithoutId(q, endpoint) ==
    q.method = "POST" /\ q.endpoint = endpoint /\ q.ok /\ ~q.has_id

C13_NullIdProceeds ==
    \A r \in Runs : \A i \in 1..Len(requests[r]) :
        LET log == requests[r]
        IN /\ CreatedWithoutId(log[i], "sensors") =>
                 /\ sensor_id[r] = None
                 /\ i = Len(log) => pc[r] = "get_stream"
                 /\ i < Len(log) =>
                       log[i + 1].method = "GET" /\ log[i + 1].endpoint = "streams"
                 /\ \A j \in 1..Len(log) :
                       (log[j].method = "POST" /\ log[j].endpoint = "streams") =>
                           log[j].id = "None"
           /\ CreatedWithoutId(log[i], "streams") =>
                 /\ stream_id[r] = None
                 /\ i = Len(log) =>
                       \/ pc[r] \in {"parse", "loop", "DONE"}
                       \/ pc[r] = "FAILED" /\ file_to_load[r] = NoFile
                 /\ \A j \in 1..Len(log) : IsDatapoints(log[j]) => log[j].id = "None"
                 /\ (pc[r] = "DONE" /\ num_records > 0) => Flushes(r) # << >>

C13_Witness ==
    \E r \in Runs :
        /\ pc[r] = "DONE"
        /\ Len(requests[r]) >= 5
        /\ CreatedWithoutId(requests[r][2], "sensors")
        /\ CreatedWithoutId(requests[r][4], "streams")
        /\ requests[r][4].id = "None"
        /\ IsAccepted(requests[r][5]) /\ requests[r][5].id = "None"

(***************************************************************************)
(* The lookup specification: the store starts with every listing of up to  *)
(* MaxEntries entries whose names equal the requested name, differ from it *)
(* in case, are a part of it, or are missing; the same kinds of names for  *)
(* the sensors and the streams.                                            *)
(***************************************************************************)
MaxEntries == 2

PartialName == "Irrigation Display"
StreamOtherCaseName == "irrigation observations"
StreamPartialName == "Irrigation"

NameKinds == {"exact", "case", "partial", "absent"}

SensorNameOf(kind) ==
    CASE kind = "exact" -> DisplayName
      [] kind = "case" -> OtherCaseName
      [] kind = "partial" -> PartialName
      [] OTHER -> Absent

StreamNameOf(kind) ==
    CASE kind = "exact" -> StreamName
      [] kind = "case" -> StreamOtherCaseName
      [] kind = "partial" -> StreamPartialName
      [] OTHER -> Absent

InitLookup ==
    /\ args_file_list = <<F_plain>>
    /\ batchsize = 1
    /\ num_records = 2
    /\ \E kinds \in SeqsUpTo(NameKinds, MaxEntries) :
          /\ sensors = [i \in 1..Len(kinds) |->
                           [id |-> NewId(i), name |-> SensorNameOf(kinds[i])]]
          /\ streams = [i \in 1..Len(kinds) |->
                           [id |-> NewId(Len(kinds) + i),
                            name |-> StreamNameOf(kinds[i]),
                            sensor_id |-> NewId(i)]]
          /\ next_id = 2 * Len(kinds) + 1
    /\ InitLocals

SpecLookup == InitLookup /\ [][Next]_vars

(***************************************************************************)
(* C14.  A successful lookup returns the identifier of the first entry, in *)
(* response order, whose name equals the requested name exactly; entries   *)
(* without a name, or whose name differs in case or is a part of it, never *)
(* match; when no entry matches the run issues exactly one creation        *)
(* request for that kind.                                                  *)
(***************************************************************************)
FirstNamed(collection, name) ==
    collection[CHOOSE i \in Named(collection, name) :
                  \A j \in Named(collection, name) : i <= j]

Posts(r, endpoint) ==
    {i \in 1..Len(requests[r]) :
        requests[r][i].method = "POST" /\ requests[r][i].endpoint = endpoint}

LookupStep ==
    \A r \in Runs :
        /\ (pc[r] = "get_sensor" /\ pc'[r] # "get_sensor"
               /\ requests'[r][Len(requests'[r])].ok) =>
              IF Named(sensors, DisplayName) = {}
              THEN pc'[r] = "create_sensor"
              ELSE /\ pc'[r] = "get_stream"
                   /\ sensor_id'[r] = FirstNamed(sensors, DisplayName).id
        /\ (pc[r] = "get_stream" /\ pc'[r] # "get_stream"
               /\ requests'[r][Len(requests'[r])].ok) =>
              IF Named(streams, StreamName) = {}
              THEN pc'[r] = "create_stream"
              ELSE /\ pc'[r] = "parse"
                   /\ stream_id'[r] = FirstNamed(streams, StreamName).id
        /\ (pc[r] = "create_sensor" /\ pc'[r] # "create_sensor") =>
              /\ Len(requests'[r]) = Len(requests[r]) + 1
              /\ Posts(r, "sensors")' = {Len(requests[r]) + 1}
        /\ (pc[r] = "create_stream" /\ pc'[r] # "create_stream") =>
              /\ Len(requests'[r]) = Len(requests[r]) + 1
              /\ Posts(r, "streams")' = {Len(requests[r]) + 1}

C14_ExactNameLookup == [][LookupStep]_vars

C14_Witness ==
    \E r \in Runs :
        /\ pc[r] = "DONE"
        /\ Len(sensors) = 2
        /\ sensors[1].name = OtherCaseName
        /\ sensors[2].name = DisplayName
        /\ sensor_id[r] = sensors[2].id
        /\ stream_id[r] = streams[2].id
        /\ Posts(r, "sensors") = {} /\ Posts(r, "streams") = {}

(***************************************************************************)
(* C15.  A run issues at most one sensor creation and at most one stream   *)
(* creation, each right after its own successful lookup found no entry of  *)
(* the requested name; no step removes or changes an entry of the store,   *)
(* and a step adds at most one entry, the one a creation request made.     *)
(***************************************************************************)
LastRequest(r) == requests[r][Len(requests[r])]

CreatesAfterLookup(r, endpoint) ==
    /\ Cardinality(Posts(r, endpoint)) <= 1
    /\ \A i \in Posts(r, endpoint) :
          /\ i > 1
          /\ requests[r][i - 1].method = "GET"
          /\ requests[r][i - 1].endpoint = endpoint
          /\ requests[r][i - 1].ok

StoreStep ==
    /\ IsPrefix(sensors, sensors') /\ Len(sensors') <= Len(sensors) + 1
    /\ IsPrefix(streams, streams') /\ Len(streams') <= Len(streams) + 1
    /\ sensors' # sensors =>
          /\ Named(sensors, DisplayName) = {}
          /\ sensors'[Len(sensors')].name = DisplayName
          /\ streams' = streams
          /\ \E r \in Runs :
                /\ pc[r] = "create_sensor"
                /\ requests'[r] # requests[r]
                /\ LastRequest(r)' .method = "POST" /\ LastRequest(r)' .ok
    /\ streams' # streams =>
          /\ Named(streams, StreamName) = {}
          /\ streams'[Len(streams')].name = StreamName
          /\ \E r \in Runs :
                /\ pc[r] = "create_stream"
                /\ requests'[r] # requests[r]
                /\ LastRequest(r)' .method = "POST" /\ LastRequest(r)' .ok

C15_StoreEffect ==
    /\ [](\A r \in Runs :
             CreatesAfterLookup(r, "sensors") /\ CreatesAfterLookup(r, "streams"))
    /\ [][StoreStep]_vars

C15_Witness ==
    \E r \in Runs :
        /\ pc[r] = "DONE"
        /\ Len(sensors) = 3
        /\ sensors[1].name = OtherCaseName
        /\ sensors[2].name = Absent
        /\ sensors[3].name = DisplayName
        /\ Len(streams) = 1
        /\ Cardinality(Posts(r, "sensors")) = 1
        /\ Cardinality(Posts(r, "streams")) = 1

(***************************************************************************)
(* C16.  A run issues at most one sensor lookup and at most one stream     *)
(* lookup, none of them after a datapoint request; every datapoint request *)
(* carries the stream identifier the run resolved, which does not change   *)
(* once resolved.                                                          *)
(***************************************************************************)
Gets(r, endpoint) ==
    {i \in 1..Len(requests[r]) :
        requests[r][i].method = "GET" /\ requests[r][i].endpoint = endpoint}

ResolvedOnce(r) ==
    /\ Cardinality(Gets(r, "sensors")) <= 1
    /\ Cardinality(Gets(r, "streams")) <= 1
    /\ \A i \in 1..Len(requests[r]), j \in 1..Len(requests[r]) :
          (IsDatapoints(requests[r][i]) /\ i < j) => IsDatapoints(requests[r][j])
    /\ \A i \in 1..Len(requests[r]) :
          IsDatapoints(requests[r][i]) =>
              requests[r][i].id = IF stream_id[r] = None THEN "None" ELSE stream_id[r]

IdentifiersFixed ==
    \A r \in Runs :
        /\ Rank(pc[r]) >= 4 => sensor_id'[r] = sensor_id[r]
        /\ Rank(pc[r]) >= 6 => stream_id'[r] = stream_id[r]

C16_ResolvedOnce == [](\A r \in Runs : ResolvedOnce(r)) /\ [][IdentifiersFixed]_vars

C16_Witness ==
    \E r \in Runs :
        /\ pc[r] = "FAILED"
        /\ Len(Flushes(r)) = 2
        /\ ~Flushes(r)[2].ok
        /\ stream_id[r] # None /\ sensor_id[r] # None
        /\ Flushes(r)[1].id = stream_id[r] /\ Flushes(r)[2].id = stream_id[r]
        /\ Cardinality(Gets(r, "sensors")) = 1 /\ Cardinality(Gets(r, "streams")) = 1

(***************************************************************************)
(* C17.  For a batch size of at least zero the record buffer never holds   *)
(* more than batch_size + 1 records, at a flush included, and it is empty  *)
(* right after each flush of the loop; for a negative batch size every     *)
(* record is flushed alone; after the final flush the buffer is left as it *)
(* is, so that in DONE it holds the last, partial batch.                   *)
(***************************************************************************)
\* the records the loop has taken and the store has not yet accepted
Pending(r) == SubSeq(records[r], total_dp[r] + 1, pos[r])

C17_BufferBound ==
    \A r \in Runs :
        /\ batchsize >= 0 =>
              /\ Len(data_point_list[r]) <= batchsize + 1
              /\ \A i \in 1..Len(Flushes(r)) :
                    Len(Flushes(r)[i].points) <= batchsize + 1
        /\ batchsize < 0 =>
              /\ Len(data_point_list[r]) <= 1
              /\ \A i \in 1..Len(Flushes(r)) : Len(Flushes(r)[i].points) = 1
        /\ pc[r] = "loop" =>
              /\ data_point_list[r] = Pending(r)
              /\ batchsize >= 0 => Len(data_point_list[r]) <= batchsize
              /\ total_dp[r] = pos[r] => data_point_list[r] = << >>
        /\ pc[r] = "DONE" =>
              data_point_list[r] =
                  IF batchsize < 0 THEN << >>
                  ELSE SubSeq(records[r],
                              num_records - (num_records % (batchsize + 1)) + 1,
                              num_records)

\* C17 as stated: at most batch_size + 1 records for every batch size, and
\* an empty buffer in DONE
C17_AsStated ==
    \A r \in Runs :
        /\ Len(data_point_list[r]) <= batchsize + 1
        /\ \A i \in 1..Len(Flushes(r)) : Len(Flushes(r)[i].points) <= batchsize + 1
        /\ (pc[r] = "loop" /\ total_dp[r] = pos[r]) => data_point_list[r] = << >>
        /\ pc[r] = "DONE" => data_point_list[r] = << >>

C17_Witness ==
    \E r \in Runs :
        /\ pc[r] = "loop"
        /\ batchsize = 2
        /\ total_dp[r] = 3 /\ pos[r] = 3
        /\ data_point_list[r] = << >>
        /\ Len(Flushes(r)) = 1 /\ Len(Flushes(r)[1].points) = 3

(***************************************************************************)
(* C18.  The store holds each record once for every run whose accepted     *)
(* batches held it: when a run failed after at least one accepted batch    *)
(* and a later run over the same file is DONE, every record is held at     *)
(* least once and the records of the failed run's batches at least twice.  *)
(***************************************************************************)
Count(x, seq) == Cardinality({i \in 1..Len(seq) : seq[i] = x})

AcceptedPoints(r) == ConcatPoints(AcceptedFlushes(r))

C18_AtLeastOnce ==
    LET held == ConcatPoints(datapoints)
    IN /\ \A x \in 1..num_records :
             Count(x, held) =
                 Cardinality({r \in Runs : Count(x, AcceptedPoints(r)) > 0})
       /\ \A r1 \in Runs, r2 \in Runs :
             (r1 < r2 /\ pc[r1] = "FAILED" /\ Len(AcceptedFlushes(r1)) >= 1
                 /\ pc[r2] = "DONE") =>
                 \A x \in 1..num_records :
                     /\ Count(x, held) >= 1
                     /\ Count(x, AcceptedPoints(r1)) > 0 => Count(x, held) >= 2

C18_Witness ==
    \E r1 \in Runs, r2 \in Runs :
        /\ r1 < r2
        /\ pc[r1] = "FAILED" /\ pc[r2] = "DONE"
        /\ AcceptedPoints(r1) = <<1, 2>>
        /\ num_records = 5
        /\ Count(1, ConcatPoints(datapoints)) = 2
        /\ Count(2, ConcatPoints(datapoints)) = 2
        /\ Count(5, ConcatPoints(datapoints)) = 1

(***************************************************************************)
(* Concurrent runs: the runs of one file against an empty store, their     *)
(* steps interleaved freely (no run waits for another).                    *)
(***************************************************************************)
\* the two runs that execute concurrently
Racers == {1, 2}

InitRace ==
    /\ args_file_list = <<F_plain>>
    /\ batchsize = 1
    /\ num_records = 1
    /\ sensors = << >> /\ streams = << >>
    /\ next_id = 1
    /\ InitLocals

NextRace ==
    \E r \in Racers :
        \/ check_continue(r)
        \/ PerformProcessStart(r)
        \/ GetSensor(r)
        \/ CreateSensor(r)
        \/ GetStream(r)
        \/ CreateStream(r)
        \/ ParseFile(r)
        \/ LoopRecord(r)
        \/ FinishUpload(r)

SpecRace == InitRace /\ [][NextRace]_vars

(***************************************************************************)
(* C19.  Concurrent runs that find no sensor (stream) of their name each   *)
(* create one: a creation follows the run's own successful lookup and no   *)
(* other test, every accepted creation adds an entry of the same name, and *)
(* a run fails only on a request that failed, never on a duplicate.        *)
(***************************************************************************)
C19_RaceUnprevented ==
    /\ \A r \in Racers :
          /\ Posts(r, "sensors") # {} => CreatesAfterLookup(r, "sensors")
          /\ Posts(r, "streams") # {} => CreatesAfterLookup(r, "streams")
          /\ pc[r] = "FAILED" => ~LastRequest(r).ok
    /\ Cardinality(Named(sensors, DisplayName)) =
           Cardinality({r \in Racers : CreatedOk(r, "sensors")})
    /\ Cardinality(Named(streams, StreamName)) =
           Cardinality({r \in Racers : CreatedOk(r, "streams")})
    /\ \A r1 \in Racers, r2 \in Racers :
          (r1 # r2 /\ pc[r1] = "create_sensor" /\ pc[r2] = "create_sensor")
              => ENABLED (CreateSensor(r1)) /\ ENABLED (CreateSensor(r2))

C19_Witness ==
    \E r1 \in Racers, r2 \in Racers :
        /\ r1 # r2
        /\ pc[r1] = "DONE" /\ pc[r2] = "DONE"
        /\ CreatedOk(r1, "sensors") /\ CreatedOk(r2, "sensors")
        /\ CreatedOk(r1, "streams") /\ CreatedOk(r2, "streams")
        /\ sensor_id[r1] # sensor_id[r2]
        /\ Cardinality(Named(sensors, DisplayName)) >= 2
        /\ Cardinality(Named(streams, StreamName)) >= 2

(***************************************************************************)
(* The runs under weak fairness: a run that can take a step takes one.     *)
(***************************************************************************)
InitLive ==
    /\ args_file_list \in RunFileLists
    /\ batchsize \in {-1, MaxBatch}
    /\ num_records \in {0, 1, MaxLen}
    /\ sensors = << >> /\ streams = << >>
    /\ next_id = 1
    /\ InitLocals

SpecLive == InitLive /\ [][Next]_vars /\ WF_vars(Next)

(***************************************************************************)
(* C20.  Every run ends in DONE or FAILED; it ends in DONE, with code 0    *)
(* and the summary, when a file matches and every request succeeded; and   *)
(* in DONE num_files_received is the number of arguments that do not start *)
(* with '-', whether they match or not.                                    *)
(***************************************************************************)
\* the arguments that do not start with '-'
Candidates == {i \in 1..Len(args_file_list) :
                  ~startswith(args_file_list[i], <<"-">>)}

AllRequestsOk(r) == \A i \in 1..Len(requests[r]) : requests[r][i].ok

C20_Terminates ==
    /\ \A r \in Runs : <>Terminal(r)
    /\ [](\A r \in Runs :
            /\ (Terminal(r) /\ MatchingPlaces(list_files) # {} /\ AllRequestsOk(r))
                  => pc[r] = "DONE"
            /\ pc[r] = "DONE" =>
                  /\ result[r] = <<Summary(Len(list_files), total_dp[r])>>
                  /\ result[r][1].code = 0
                  /\ result[r][1].num_files_received = IntStr(Cardinality(Candidates)))

C20_Witness ==
    \E r \in Runs :
        /\ pc[r] = "DONE"
        /\ args_file_list = <<F_opt, F_txt, F_dir, F_plain>>
        /\ Cardinality(MatchingPlaces(list_files)) = 2
        /\ result[r] # << >>
        /\ result[r][1].num_files_received = <<"3">>
        /\ result[r][1].code = 0

====
